---- MODULE Spec2Model ----
(***************************************************************************)
(* Range-minimum-query structures of RMQ.rs (NoPreprocessing, Naive,       *)
(* SegmentTree, SparseTable, PlusMinus), the Euler tour of a rooted tree   *)
(* and the LCA reduction, with the drivers of rmq_test.rs around them.     *)
(*                                                                         *)
(* Conventions.                                                            *)
(*  - A Rust Vec / slice is a TLA+ sequence; Rust index i is position i+1, *)
(*    read through At(v, i).                                               *)
(*  - usize is an unsigned integer of UsizeBits bits.  The build decides   *)
(*    what an arithmetic overflow does: with overflow checks (the dev      *)
(*    profile) it panics, without them (the release profile) it wraps and  *)
(*    a shift amount is masked.  The variable overflow_checks holds the    *)
(*    profile of the build and is chosen in Init.                          *)
(*  - A fallible computation yields a record [ok, v, why]: ok = FALSE is a *)
(*    panic and why is its message.                                        *)
(***************************************************************************)
EXTENDS Integers, Sequences, FiniteSets, TLC

\* ------------------------------------------------------------------ bounds

\* Longest array of arbitrary values handed to the four general structures.
MaxLen == 5

\* Array values are drawn from 0 .. MaxVal-1.
MaxVal == 3

\* The steps of a +-1 array repeat a pattern of PatLen steps; every +-1 array
\* of up to PatLen + 1 elements is one of them.
PatLen == 5

\* For each block size above 1, the +-1 arrays have the TailLens smallest
\* lengths with that block size (the first one a multiple of the block size).
TailLens == 4

\* Queries on an array take their ends among the QSpan first and the QSpan
\* last indices.
QSpan == 5

\* Most nodes of a tree.
MaxNodes == 4

\* The arguments of the logarithm helpers: 1 .. MaxArg, and 2^e - 1, 2^e and
\* 2^e + 1 for e up to MaxExp.
MaxArg == 40

MaxExp == 28

\* ------------------------------------------------------- usize arithmetic

\* size_of::<usize>() in bytes.  The model is the program on a target with
\* 16-bit pointers, so that every usize value is a TLC integer.
SizeOfUsize == 2

UsizeBits == 8 * SizeOfUsize

UsizeMod == 2 ^ UsizeBits

\* usize::MAX, also the "no child" link of a segment tree node and NULL_NODE.
USIZE_MAX == UsizeMod - 1

ISIZE_MAX == 2 ^ (UsizeBits - 1) - 1

Ok(val) == [ok |-> TRUE, v |-> val, why |-> ""]

Panic(msg) == [ok |-> FALSE, v |-> 0, why |-> msg]

\* a - b on usize.
usize_sub(oc, a, b) ==
    IF a >= b THEN Ok(a - b)
    ELSE IF oc THEN Panic("attempt to subtract with overflow")
    ELSE Ok(a - b + UsizeMod)

\* a + b on usize.
usize_add(oc, a, b) ==
    IF a + b < UsizeMod THEN Ok(a + b)
    ELSE IF oc THEN Panic("attempt to add with overflow")
    ELSE Ok((a + b) % UsizeMod)

\* a << k on usize: bits shifted out are lost; a shift amount of UsizeBits or
\* more is an overflow.
usize_shl(oc, a, k) ==
    IF k < UsizeBits THEN Ok((a * 2 ^ k) % UsizeMod)
    ELSE IF oc THEN Panic("attempt to shift left with overflow")
    ELSE Ok((a * 2 ^ (k % UsizeBits)) % UsizeMod)

\* a >> k on usize.
usize_shr(oc, a, k) ==
    IF k < UsizeBits THEN Ok(a \div 2 ^ k)
    ELSE IF oc THEN Panic("attempt to shift right with overflow")
    ELSE Ok(a \div 2 ^ (k % UsizeBits))

RECURSIVE BitAnd(_, _)
BitAnd(a, b) ==
    IF a = 0 \/ b = 0 THEN 0
    ELSE 2 * BitAnd(a \div 2, b \div 2) + (IF a % 2 = 1 /\ b % 2 = 1 THEN 1 ELSE 0)

RECURSIVE BitOr(_, _)
BitOr(a, b) ==
    IF a = 0 THEN b
    ELSE IF b = 0 THEN a
    ELSE 2 * BitOr(a \div 2, b \div 2) + (IF a % 2 = 1 \/ b % 2 = 1 THEN 1 ELSE 0)

RECURSIVE BitXor(_, _)
BitXor(a, b) ==
    IF a = 0 THEN b
    ELSE IF b = 0 THEN a
    ELSE 2 * BitXor(a \div 2, b \div 2) + (IF a % 2 # b % 2 THEN 1 ELSE 0)

\* Number of significant bits of x (0 for x = 0).
RECURSIVE BitLen(_)
BitLen(x) == IF x = 0 THEN 0 ELSE 1 + BitLen(x \div 2)

leading_zeros(x) == UsizeBits - BitLen(x)

\* ------------------------------------------------------------------ log.rs

log_f(n) == BitXor(UsizeBits - 1, leading_zeros(BitOr(n, 1)))

\* leading_zeros() of an unsigned integer of the given number of bits.
leading_zeros_of(bits, x) == bits - BitLen(x)

log_f_32(n) == BitXor(31, leading_zeros_of(32, BitOr(n, 1)))

log_f_64(n) == BitXor(63, leading_zeros_of(64, BitOr(n, 1)))

\* log_f_32(n - 1) + 1; for n = 0 the subtraction overflows: a panic, or
\* u32::MAX, whose log_f_32 is 31.
log_c_32(oc, n) ==
    IF n >= 1 THEN Ok(log_f_32(n - 1) + 1)
    ELSE IF oc THEN Panic("attempt to subtract with overflow")
    ELSE Ok(31 + 1)

\* log_f_64(n - 1) + 1; for n = 0 the subtraction overflows: a panic, or
\* u64::MAX, whose log_f_64 is 63.
log_c_64(oc, n) ==
    IF n >= 1 THEN Ok(log_f_64(n - 1) + 1)
    ELSE IF oc THEN Panic("attempt to subtract with overflow")
    ELSE Ok(63 + 1)

\* ------------------------------------------------------------- vec helpers

At(v, i) == v[i + 1]

InRange(v, i) == i >= 0 /\ i < Len(v)

SetAt(v, i, x) == [v EXCEPT ![i + 1] = x]

Min(a, b) == IF a < b THEN a ELSE b

Max(a, b) == IF a < b THEN b ELSE a

\* ------------------------------------------------------------- rmq/mod.rs

\* min_index with <= for <: i also when the two values are equal.
min_index_or_equal(data, i, j) == IF At(data, i) <= At(data, j) THEN i ELSE j

\* The index, of i and j, that stores the smaller value: j unless data[i] is
\* strictly smaller.
min_index(data, i, j) == IF At(data, i) < At(data, j) THEN i ELSE j

\* min_index with the bounds checks of the two slice reads.
min_index_checked(data, i, j) ==
    IF InRange(data, i) /\ InRange(data, j) THEN Ok(min_index(data, i, j))
    ELSE Panic("index out of bounds")

\* -------------------------------------------------- rmq/no_preprocessing.rs

NoPreprocessing_new(data) == [data |-> data, status |-> "new", why |-> ""]

NoPreprocessing_process_data(self) == [self EXCEPT !.status = "ready"]

\* The scan for idx in (i + 1)..=j, min_idx being the minimum so far.
RECURSIVE NoPreprocessing_scan(_, _, _, _)
NoPreprocessing_scan(data, min_idx, idx, j) ==
    IF idx > j THEN Ok(min_idx)
    ELSE LET m == min_index_checked(data, min_idx, idx)
         IN  IF ~m.ok THEN m ELSE NoPreprocessing_scan(data, m.v, idx + 1, j)

NoPreprocessing_query(oc, self, i, j) ==
    LET first == usize_add(oc, i, 1)
    IN  IF ~first.ok THEN first
        ELSE NoPreprocessing_scan(self.data, i, first.v, j)

\* --------------------------------------------------------------- rmq/naive.rs

Naive_new(data) == [data |-> data, table |-> <<>>, status |-> "new", why |-> ""]

\* table[i][j] for i <= j, by the recurrence of the inner loop.
RECURSIVE Naive_entry(_, _, _)
Naive_entry(data, i, j) ==
    IF j = i THEN i ELSE min_index(data, Naive_entry(data, i, j - 1), j)

\* The table after both loops: the entry (i, j) and its mirror (j, i) hold the
\* same index.
Naive_table(data) ==
    LET n == Len(data)
    IN  [r \in 1..n |-> [c \in 1..n |->
            Naive_entry(data, Min(r, c) - 1, Max(r, c) - 1)]]

Naive_process_data(self) ==
    [self EXCEPT !.table = Naive_table(self.data), !.status = "ready"]

Naive_query(oc, self, i, j) ==
    IF ~InRange(self.table, i) THEN Panic("index out of bounds")
    ELSE IF ~InRange(At(self.table, i), j) THEN Panic("index out of bounds")
    ELSE Ok(At(At(self.table, i), j))

\* -------------------------------------------------------- rmq/sparse_table.rs

SparseTable_new(data) == [data |-> data, table |-> <<>>, status |-> "new", why |-> ""]

\* SparseTable_row with the second operand at i + 2^j instead of
\* i + 2^(j-1).
SparseTable_row_wide(data, prev, j) ==
    LET n == Len(data)
    IN  [p \in 1..n |->
            LET i     == p - 1
                l_idx == i
                r_idx == Min(n - 1, i + 2 ^ j)
                l_min == At(prev, l_idx)
                r_min == At(prev, r_idx)
            IN  min_index(data, l_min, r_min)]

\* Row j >= 1 of the table from row j - 1.
SparseTable_row(data, prev, j) ==
    LET n == Len(data)
    IN  [p \in 1..n |->
            LET i     == p - 1
                l_idx == i
                r_idx == Min(n - 1, i + 2 ^ (j - 1))
                l_min == At(prev, l_idx)
                r_min == At(prev, r_idx)
            IN  min_index(data, l_min, r_min)]

\* Rows j .. table_height-1 appended to the rows built so far.
RECURSIVE SparseTable_rows(_, _, _, _)
SparseTable_rows(data, table, j, table_height) ==
    IF j >= table_height THEN table
    ELSE SparseTable_rows(data,
             Append(table, SparseTable_row(data, At(table, j - 1), j)),
             j + 1, table_height)

SparseTable_process_data(self) ==
    LET data         == self.data
        n            == Len(data)
        table_height == log_f(n) + 1
        row0         == [p \in 1..n |-> p - 1]
    IN  [self EXCEPT !.table = SparseTable_rows(data, <<row0>>, 1, table_height),
                     !.status = "ready"]

\* The second table position, j - (1 << k) + 1, evaluated left to right.
SparseTable_second(oc, j, k) ==
    LET sh == usize_shl(oc, 1, k)
        d  == IF sh.ok THEN usize_sub(oc, j, sh.v) ELSE sh
    IN  IF ~d.ok THEN d ELSE usize_add(oc, d.v, 1)

SparseTable_query(oc, self, i, j) ==
    LET gap == usize_sub(oc, j, i)
        k   == log_f(gap.v)
        p2  == SparseTable_second(oc, j, k)
    IN  IF ~gap.ok THEN gap
        ELSE IF ~InRange(self.table, k) THEN Panic("index out of bounds")
        ELSE IF ~InRange(At(self.table, k), i) THEN Panic("index out of bounds")
        ELSE IF ~p2.ok THEN p2
        ELSE IF ~InRange(At(self.table, k), p2.v) THEN Panic("index out of bounds")
        ELSE min_index_checked(self.data,
                 At(At(self.table, k), i), At(At(self.table, k), p2.v))

\* -------------------------------------------------------- rmq/segment_tree.rs

Node_new == [left |-> USIZE_MAX, right |-> USIZE_MAX,
             fr_idx |-> 0, to_idx |-> 0, min_idx |-> 0]

SegmentTree_new(data) == [data |-> data, tree |-> <<>>, status |-> "new", why |-> ""]

\* The loop that determines the size: one more layer while lay_sz > 1.
RECURSIVE SegmentTree_size(_, _)
SegmentTree_size(tree_size, lay_sz) ==
    IF lay_sz > 1
    THEN SegmentTree_size(tree_size + ((lay_sz + 1) \div 2), (lay_sz + 1) \div 2)
    ELSE tree_size

\* self.tree.resize_with(tree_size, Node::new): nodes already there are kept.
SegmentTree_resize(tree, tree_size) ==
    [p \in 1..tree_size |-> IF p <= Len(tree) THEN tree[p] ELSE Node_new]

\* The bottom layer: leaf i is node tree_size - n + i.
SegmentTree_leaves(tree, tree_size, n) ==
    [p \in 1..Len(tree) |->
        IF p - 1 >= tree_size - n
        THEN LET i == (p - 1) - (tree_size - n)
             IN  [tree[p] EXCEPT !.min_idx = i, !.fr_idx = i, !.to_idx = i]
        ELSE tree[p]]

\* SegmentTree_node that keeps the left child's min_idx when there is a
\* right child.
SegmentTree_node_left_min(data, tree, q_start, q_size, n_ptr, q_ptr) ==
    LET left_node == At(tree, q_start + q_ptr)
        one       == [At(tree, n_ptr) EXCEPT !.left    = q_start + q_ptr,
                                             !.fr_idx  = left_node.fr_idx,
                                             !.to_idx  = left_node.to_idx,
                                             !.min_idx = left_node.min_idx]
    IN  IF q_ptr + 1 < q_size
        THEN LET right_node == At(tree, q_start + q_ptr + 1)
             IN  [one EXCEPT !.right   = q_start + q_ptr + 1,
                             !.to_idx  = right_node.to_idx]
        ELSE one

\* The node created at n_ptr from the children q_start + q_ptr (and + 1).
SegmentTree_node(data, tree, q_start, q_size, n_ptr, q_ptr) ==
    LET left_node == At(tree, q_start + q_ptr)
        one       == [At(tree, n_ptr) EXCEPT !.left    = q_start + q_ptr,
                                             !.fr_idx  = left_node.fr_idx,
                                             !.to_idx  = left_node.to_idx,
                                             !.min_idx = left_node.min_idx]
    IN  IF q_ptr + 1 < q_size
        THEN LET right_node == At(tree, q_start + q_ptr + 1)
             IN  [one EXCEPT !.right   = q_start + q_ptr + 1,
                             !.to_idx  = right_node.to_idx,
                             !.min_idx = min_index(data, one.min_idx, right_node.min_idx)]
        ELSE one

\* The inner loop: the nodes of one layer, left to right.
RECURSIVE SegmentTree_layer(_, _, _, _, _, _)
SegmentTree_layer(data, tree, q_start, q_size, n_ptr, q_ptr) ==
    IF q_ptr < q_size
    THEN SegmentTree_layer(data,
             SetAt(tree, n_ptr, SegmentTree_node(data, tree, q_start, q_size, n_ptr, q_ptr)),
             q_start, q_size, n_ptr + 1, q_ptr + 2)
    ELSE tree

\* The outer loop: one iteration per layer, bottom-up.
RECURSIVE SegmentTree_build(_, _, _, _)
SegmentTree_build(data, tree, q_size, q_start) ==
    IF q_size > 1
    THEN LET cur_lay_size == (q_size + 1) \div 2
         IN  SegmentTree_build(data,
                 SegmentTree_layer(data, tree, q_start, q_size, q_start - cur_lay_size, 0),
                 cur_lay_size, q_start - cur_lay_size)
    ELSE tree

SegmentTree_process_data(self) ==
    LET n         == Len(self.data)
        tree_size == SegmentTree_size(n, n)
        sized     == SegmentTree_resize(self.tree, tree_size)
        bottom    == SegmentTree_leaves(sized, tree_size, n)
    IN  [self EXCEPT !.tree = SegmentTree_build(self.data, bottom, n, tree_size - n),
                     !.status = "ready"]

\* First loop of query: down from node_idx until the node matches [i, j]
\* (ret = TRUE, v its min_idx) or the paths to i and j split (ret = FALSE,
\* v the node where they split).
RECURSIVE SegmentTree_descend(_, _, _, _)
SegmentTree_descend(tree, node_idx, i, j) ==
    IF ~InRange(tree, node_idx) THEN Panic("index out of bounds") @@ [ret |-> FALSE]
    ELSE LET node == At(tree, node_idx)
         IN  IF node.fr_idx = i /\ node.to_idx = j
             THEN Ok(node.min_idx) @@ [ret |-> TRUE]
             ELSE IF ~InRange(tree, node.left)
             THEN Panic("index out of bounds") @@ [ret |-> FALSE]
             ELSE LET left_to == At(tree, node.left).to_idx
                  IN  IF j <= left_to
                      THEN SegmentTree_descend(tree, node.left, i, j)
                      ELSE IF i > left_to
                      THEN SegmentTree_descend(tree, node.right, i, j)
                      ELSE Ok(node_idx) @@ [ret |-> FALSE]

\* SegmentTree_walk_i that goes left without taking the minimum of the right
\* child it skips.
RECURSIVE SegmentTree_walk_i_unskipped(_, _, _, _, _)
SegmentTree_walk_i_unskipped(data, tree, min_idx, i_node_idx, i) ==
    IF ~InRange(tree, i_node_idx) THEN Panic("index out of bounds")
    ELSE LET i_node == At(tree, i_node_idx)
         IN  IF i_node.fr_idx = i
             THEN min_index_checked(data, min_idx, i_node.min_idx)
             ELSE IF ~InRange(tree, i_node.left) THEN Panic("index out of bounds")
             ELSE IF i <= At(tree, i_node.left).to_idx
             THEN SegmentTree_walk_i_unskipped(data, tree, min_idx, i_node.left, i)
             ELSE SegmentTree_walk_i_unskipped(data, tree, min_idx, i_node.right, i)

\* Second loop: down the left subtree towards i, taking the minimum of every
\* right child that is skipped.
RECURSIVE SegmentTree_walk_i(_, _, _, _, _)
SegmentTree_walk_i(data, tree, min_idx, i_node_idx, i) ==
    IF ~InRange(tree, i_node_idx) THEN Panic("index out of bounds")
    ELSE LET i_node == At(tree, i_node_idx)
         IN  IF i_node.fr_idx = i
             THEN min_index_checked(data, min_idx, i_node.min_idx)
             ELSE IF ~InRange(tree, i_node.left) THEN Panic("index out of bounds")
             ELSE IF i <= At(tree, i_node.left).to_idx
             THEN IF ~InRange(tree, i_node.right) THEN Panic("index out of bounds")
                  ELSE LET m == min_index_checked(data, min_idx,
                                    At(tree, i_node.right).min_idx)
                       IN  IF ~m.ok THEN m
                           ELSE SegmentTree_walk_i(data, tree, m.v, i_node.left, i)
             ELSE SegmentTree_walk_i(data, tree, min_idx, i_node.right, i)

\* Third loop: down the right subtree towards j, taking the minimum of every
\* left child that is skipped.
RECURSIVE SegmentTree_walk_j(_, _, _, _, _)
SegmentTree_walk_j(data, tree, min_idx, j_node_idx, j) ==
    IF ~InRange(tree, j_node_idx) THEN Panic("index out of bounds")
    ELSE LET j_node == At(tree, j_node_idx)
         IN  IF j_node.to_idx = j
             THEN min_index_checked(data, min_idx, j_node.min_idx)
             ELSE IF ~InRange(tree, j_node.left) THEN Panic("index out of bounds")
             ELSE LET left_child == At(tree, j_node.left)
                  IN  IF j <= left_child.to_idx
                      THEN SegmentTree_walk_j(data, tree, min_idx, j_node.left, j)
                      ELSE LET m == min_index_checked(data, min_idx, left_child.min_idx)
                           IN  IF ~m.ok THEN m
                               ELSE SegmentTree_walk_j(data, tree, m.v, j_node.right, j)

\* The nodes whose min_idx the second loop takes: every skipped right child
\* and the node at which the loop ends.
RECURSIVE SegmentTree_taken_i(_, _, _)
SegmentTree_taken_i(tree, i_node_idx, i) ==
    LET i_node == At(tree, i_node_idx)
    IN  IF i_node.fr_idx = i THEN {i_node_idx}
        ELSE IF i <= At(tree, i_node.left).to_idx
        THEN {i_node.right} \cup SegmentTree_taken_i(tree, i_node.left, i)
        ELSE SegmentTree_taken_i(tree, i_node.right, i)

\* The nodes whose min_idx the third loop takes: every skipped left child
\* and the node at which the loop ends.
RECURSIVE SegmentTree_taken_j(_, _, _)
SegmentTree_taken_j(tree, j_node_idx, j) ==
    LET j_node == At(tree, j_node_idx)
    IN  IF j_node.to_idx = j THEN {j_node_idx}
        ELSE IF j <= At(tree, j_node.left).to_idx
        THEN SegmentTree_taken_j(tree, j_node.left, j)
        ELSE {j_node.left} \cup SegmentTree_taken_j(tree, j_node.right, j)

\* The nodes whose min_idx query(i, j) takes, from node_idx down: the node
\* that matches [i, j], or those of the two walks below the split.
RECURSIVE SegmentTree_taken(_, _, _, _)
SegmentTree_taken(tree, node_idx, i, j) ==
    LET node    == At(tree, node_idx)
        left_to == At(tree, node.left).to_idx
    IN  IF node.fr_idx = i /\ node.to_idx = j THEN {node_idx}
        ELSE IF j <= left_to THEN SegmentTree_taken(tree, node.left, i, j)
        ELSE IF i > left_to THEN SegmentTree_taken(tree, node.right, i, j)
        ELSE SegmentTree_taken_i(tree, node.left, i)
                 \cup SegmentTree_taken_j(tree, node.right, j)

SegmentTree_query(oc, self, i, j) ==
    LET tree == self.tree
        top  == SegmentTree_descend(tree, 0, i, j)
    IN  IF ~top.ok THEN Panic(top.why)
        ELSE IF top.ret THEN Ok(top.v)
        ELSE LET split  == At(tree, top.v)
                 i_part == SegmentTree_walk_i(self.data, tree, i, split.left, i)
             IN  IF ~i_part.ok THEN i_part
                 ELSE SegmentTree_walk_j(self.data, tree, i_part.v, split.right, j)

\* ----------------------------------------------------------- rmq/plus_minus.rs

\* Option<SparseTable<T>>.
None == [some |-> FALSE, rmq |-> SparseTable_new(<<>>)]

Some(rmq) == [some |-> TRUE, rmq |-> rmq]

\* size_of::<Option<SparseTable<T>>>(): the fat pointer of data (2 words) and
\* the Vec of table (3 words); None lives in the pointer's niche.
SizeOfClassSlot == 5 * SizeOfUsize

PlusMinus_new(data) ==
    [data |-> data, block_size |-> 0, block_div |-> 0, block_mod |-> 0,
     block_min_idx |-> <<>>, table_rmq |-> SparseTable_new(<<>>),
     block_cls |-> <<>>, class_rmq |-> <<>>, status |-> "new", why |-> ""]

\* PlusMinus_block_size with k = log_f(log_f(n)), the "- 1" left out.
PlusMinus_block_size_whole(oc, n) ==
    LET log_n == log_f(n)
        k     == Ok(log_f(log_n))
        bs    == IF k.ok THEN usize_shl(oc, 1, k.v) ELSE k
        bm    == IF bs.ok THEN usize_sub(oc, bs.v, 1) ELSE bs
    IN  IF ~bm.ok THEN bm
        ELSE Ok([k |-> k.v, block_size |-> bs.v, block_mod |-> bm.v])

\* "Determine block size": k = log_f(log_f(n)) - 1 and block_size = 1 << k.
\* v is [k, block_size, block_mod].
PlusMinus_block_size(oc, n) ==
    LET log_n == log_f(n)
        k     == usize_sub(oc, log_f(log_n), 1)
        bs    == IF k.ok THEN usize_shl(oc, 1, k.v) ELSE k
        bm    == IF bs.ok THEN usize_sub(oc, bs.v, 1) ELSE bs
    IN  IF ~bm.ok THEN bm
        ELSE Ok([k |-> k.v, block_size |-> bs.v, block_mod |-> bm.v])

\* block_count = ((n - 1) >> block_div) + 1.
PlusMinus_block_count(oc, n, block_div) ==
    LET a == usize_sub(oc, n, 1)
        b == IF a.ok THEN usize_shr(oc, a.v, block_div) ELSE a
    IN  IF ~b.ok THEN b ELSE usize_add(oc, b.v, 1)

\* The inner loop over the rest of block b: j counts the elements of the
\* block, i runs over data.  st is [i, val, idx]: the next element and the
\* block's entries of block_min_val and block_min_idx.
RECURSIVE PlusMinus_block_scan(_, _, _, _)
PlusMinus_block_scan(data, block_size, j, st) ==
    IF j < block_size /\ st.i < Len(data)
    THEN PlusMinus_block_scan(data, block_size, j + 1,
             IF At(data, st.i) < st.val
             THEN [i |-> st.i + 1, val |-> At(data, st.i), idx |-> st.i]
             ELSE [st EXCEPT !.i = st.i + 1])
    ELSE st

\* The outer loop "while i < n".  Block b starts at b * block_size; it pushes
\* data[b_sta] and b_sta to the two vectors and then scans the block into
\* entry b of each.  The iterations touch different entries, so the loop is
\* given entry by entry: pushed is self.block_min_idx after all the pushes.
\* v is [val, idx]: block_min_val and self.block_min_idx.
PlusMinus_block_minima(data, block_size, block_min_idx) ==
    LET n      == Len(data)
        blocks == (n + block_size - 1) \div block_size
        pushed == block_min_idx \o [p \in 1..blocks |-> (p - 1) * block_size]
        scan(b) == PlusMinus_block_scan(data, block_size, 1,
                       [i   |-> b * block_size + 1,
                        val |-> At(data, b * block_size),
                        idx |-> At(pushed, b)])
    IN  Ok([val |-> [p \in 1..blocks |-> scan(p - 1).val],
            idx |-> [p \in 1..Len(pushed) |->
                        IF p <= blocks THEN scan(p - 1).idx ELSE pushed[p]]])

\* The class of the block data[b_sta .. b_end): one bit per step, shifted in
\* from the right, 1 for a step that does not go up.
RECURSIVE PlusMinus_block_class(_, _, _, _)
PlusMinus_block_class(data, cls, i, b_end) ==
    IF i < b_end
    THEN PlusMinus_block_class(data,
             ((2 * cls) % UsizeMod) + (IF At(data, i - 1) >= At(data, i) THEN 1 ELSE 0),
             i + 1, b_end)
    ELSE cls

\* Vec::resize / resize_with: the entries already there are kept.
VecResize(v, new_len, fill) ==
    [p \in 1..new_len |-> IF p <= Len(v) THEN v[p] ELSE fill]

\* The class of block b.
PlusMinus_class_of(data, block_size, b) ==
    LET b_sta == b * block_size
        b_end == Min(b_sta + block_size, Len(data))
    IN  PlusMinus_block_class(data, 0, b_sta + 1, b_end)

\* The table built for a class: a SparseTable over the block's slice of data.
PlusMinus_class_table(data, block_size, b) ==
    LET b_sta == b * block_size
        b_end == Min(b_sta + block_size, Len(data))
    IN  Some(SparseTable_process_data(SparseTable_new(SubSeq(data, b_sta + 1, b_end))))

\* PlusMinus_classify without the store of line 149: block_cls keeps what
\* resize put there.
PlusMinus_classify_unstored(data, block_size, block_count, block_cls, class_rmq) ==
    LET cls(b)   == PlusMinus_class_of(data, block_size, b)
        firsts   == [c \in 1..Len(class_rmq) |->
                        {b \in 0..(block_count - 1) : cls(b) = c - 1}]
        first(c) == CHOOSE b \in firsts[c] : \A o \in firsts[c] : b <= o
    IN  IF \E b \in 0..(block_count - 1) :
               ~InRange(block_cls, b) \/ ~InRange(class_rmq, cls(b))
        THEN Panic("index out of bounds")
        ELSE Ok([block_cls |-> block_cls,
                 class_rmq |-> [c \in 1..Len(class_rmq) |->
                                   IF class_rmq[c].some \/ firsts[c] = {}
                                   THEN class_rmq[c]
                                   ELSE PlusMinus_class_table(data, block_size, first(c))]])

\* PlusMinus_classify with the slot of a class emptied when it already holds
\* a table.
PlusMinus_classify_emptied(data, block_size, block_count, block_cls, class_rmq) ==
    LET cls(b)   == PlusMinus_class_of(data, block_size, b)
        firsts   == [c \in 1..Len(class_rmq) |->
                        {b \in 0..(block_count - 1) : cls(b) = c - 1}]
        first(c) == CHOOSE b \in firsts[c] : \A o \in firsts[c] : b <= o
    IN  IF \E b \in 0..(block_count - 1) :
               ~InRange(block_cls, b) \/ ~InRange(class_rmq, cls(b))
        THEN Panic("index out of bounds")
        ELSE Ok([block_cls |-> [p \in 1..Len(block_cls) |->
                                   IF p <= block_count THEN cls(p - 1) ELSE block_cls[p]],
                 class_rmq |-> [c \in 1..Len(class_rmq) |->
                                   IF firsts[c] = {} THEN class_rmq[c]
                                   ELSE IF class_rmq[c].some THEN None
                                   ELSE PlusMinus_class_table(data, block_size, first(c))]])

\* The loop "for b in 0..block_count" of the classification, given entry by
\* entry: block b's class goes to block_cls[b], and a class slot that is None
\* when its first block comes by gets that block's table.  v is
\* [block_cls, class_rmq].
PlusMinus_classify(data, block_size, block_count, block_cls, class_rmq) ==
    LET cls(b)   == PlusMinus_class_of(data, block_size, b)
        firsts   == [c \in 1..Len(class_rmq) |->
                        {b \in 0..(block_count - 1) : cls(b) = c - 1}]
        first(c) == CHOOSE b \in firsts[c] : \A o \in firsts[c] : b <= o
    IN  IF \E b \in 0..(block_count - 1) :
               ~InRange(block_cls, b) \/ ~InRange(class_rmq, cls(b))
        THEN Panic("index out of bounds")
        ELSE Ok([block_cls |-> [p \in 1..Len(block_cls) |->
                                   IF p <= block_count THEN cls(p - 1) ELSE block_cls[p]],
                 class_rmq |-> [c \in 1..Len(class_rmq) |->
                                   IF class_rmq[c].some \/ firsts[c] = {}
                                   THEN class_rmq[c]
                                   ELSE PlusMinus_class_table(data, block_size, first(c))]])

PlusMinus_panicked(self, msg) == [self EXCEPT !.status = "panicked", !.why = msg]

PlusMinus_process_data(oc, self) ==
    LET data   == self.data
        n      == Len(data)
        size   == PlusMinus_block_size(oc, n)
        count  == PlusMinus_block_count(oc, n, size.v.k)
        minima == PlusMinus_block_minima(data, size.v.block_size, self.block_min_idx)
        shift  == usize_sub(oc, size.v.block_size, 1)
        class_count == usize_shl(oc, 1, shift.v)
        classes == PlusMinus_classify(data, size.v.block_size, count.v,
                       VecResize(self.block_cls, count.v, 0),
                       VecResize(self.class_rmq, class_count.v, None))
    IN  IF ~size.ok THEN PlusMinus_panicked(self, size.why)
        ELSE IF ~count.ok THEN PlusMinus_panicked(self, count.why)
        ELSE IF ~minima.ok THEN PlusMinus_panicked(self, minima.why)
        ELSE IF ~shift.ok THEN PlusMinus_panicked(self, shift.why)
        ELSE IF ~class_count.ok THEN PlusMinus_panicked(self, class_count.why)
        ELSE IF class_count.v * SizeOfClassSlot > ISIZE_MAX
        THEN PlusMinus_panicked(self, "capacity overflow")
        ELSE IF ~classes.ok THEN PlusMinus_panicked(self, classes.why)
        ELSE [self EXCEPT
                 !.block_size    = size.v.block_size,
                 !.block_div     = size.v.k,
                 !.block_mod     = size.v.block_mod,
                 !.block_min_idx = minima.v.idx,
                 !.table_rmq     = SparseTable_process_data(SparseTable_new(minima.v.val)),
                 !.block_cls     = classes.v.block_cls,
                 !.class_rmq     = classes.v.class_rmq,
                 !.status        = "ready"]

\* in_block_min without the starting point of the block added.
in_block_min_unshifted(oc, self, b, i, j) ==
    IF ~InRange(self.block_cls, b) THEN Panic("index out of bounds")
    ELSE LET b_class == At(self.block_cls, b)
         IN  IF ~InRange(self.class_rmq, b_class) THEN Panic("index out of bounds")
             ELSE IF ~At(self.class_rmq, b_class).some
             THEN Panic("unwrap on a None value")
             ELSE SparseTable_query(oc, At(self.class_rmq, b_class).rmq, i, j)

\* The minimum of positions i..j of block b, as an index into data.
in_block_min(oc, self, b, i, j) ==
    IF ~InRange(self.block_cls, b) THEN Panic("index out of bounds")
    ELSE LET b_class == At(self.block_cls, b)
         IN  IF ~InRange(self.class_rmq, b_class) THEN Panic("index out of bounds")
             ELSE IF ~At(self.class_rmq, b_class).some
             THEN Panic("unwrap on a None value")
             ELSE LET r == SparseTable_query(oc, At(self.class_rmq, b_class).rmq, i, j)
                  IN  IF ~r.ok THEN r ELSE Ok(b * self.block_size + r.v)

\* The part of query for i and j in different blocks.
PlusMinus_query_blocks(oc, self, i_b, j_b, i_idx, j_idx) ==
    LET i_min  == in_block_min(oc, self, i_b, i_idx, self.block_mod)
        j_min  == in_block_min(oc, self, j_b, 0, j_idx)
        ij_min == min_index_checked(self.data, i_min.v, j_min.v)
        from   == usize_add(oc, i_b, 1)
        to     == usize_sub(oc, j_b, 1)
        b_idx  == SparseTable_query(oc, self.table_rmq, from.v, to.v)
    IN  IF ~i_min.ok THEN i_min
        ELSE IF ~j_min.ok THEN j_min
        ELSE IF ~ij_min.ok THEN ij_min
        ELSE IF ~from.ok THEN from
        ELSE IF from.v = j_b THEN ij_min
        ELSE IF ~to.ok THEN to
        ELSE IF ~b_idx.ok THEN b_idx
        ELSE IF ~InRange(self.block_min_idx, b_idx.v) THEN Panic("index out of bounds")
        ELSE min_index_checked(self.data, ij_min.v, At(self.block_min_idx, b_idx.v))

PlusMinus_query(oc, self, i, j) ==
    LET i_b   == usize_shr(oc, i, self.block_div)
        j_b   == usize_shr(oc, j, self.block_div)
        i_idx == BitAnd(i, self.block_mod)
        j_idx == BitAnd(j, self.block_mod)
    IN  IF ~i_b.ok THEN i_b
        ELSE IF ~j_b.ok THEN j_b
        ELSE IF i_b.v = j_b.v THEN in_block_min(oc, self, i_b.v, i_idx, j_idx)
        ELSE PlusMinus_query_blocks(oc, self, i_b.v, j_b.v, i_idx, j_idx)

\* -------------------------------------------------------------------- tree.rs

NULL_NODE == USIZE_MAX

\* The loop of from_parents over (u_idx, p_id): v is [root, children].
RECURSIVE Tree_from_parents_loop(_, _, _, _)
Tree_from_parents_loop(parents, u_idx, root, children) ==
    IF u_idx < Len(parents)
    THEN LET p_id == At(parents, u_idx)
         IN  IF p_id = NULL_NODE
             THEN Tree_from_parents_loop(parents, u_idx + 1, u_idx, children)
             ELSE Tree_from_parents_loop(parents, u_idx + 1, root,
                      SetAt(children, p_id, Append(At(children, p_id), u_idx)))
    ELSE [root |-> root, children |-> children]

Tree_from_parents(parents) ==
    LET built == Tree_from_parents_loop(parents, 0, NULL_NODE,
                     [p \in 1..Len(parents) |-> <<>>])
    IN  [root |-> built.root, parents |-> parents, children |-> built.children]

\* Tree_euler_step with the level taken after the push or pop instead of
\* before it.
Tree_euler_step_level_late(tree, st) ==
    LET v_id  == st.stack[Len(st.stack)]
        c_idx == At(st.ch_idx, v_id)
        seen  == [st EXCEPT !.r = SetAt(st.r, v_id, Len(st.e)),
                            !.e = Append(st.e, v_id)]
    IN  IF c_idx < Len(At(tree.children, v_id))
        THEN [seen EXCEPT !.stack  = Append(st.stack, At(At(tree.children, v_id), c_idx)),
                          !.ch_idx = SetAt(st.ch_idx, v_id, c_idx + 1),
                          !.l      = Append(st.l, Len(st.stack) + 1)]
        ELSE [seen EXCEPT !.stack  = SubSeq(st.stack, 1, Len(st.stack) - 1),
                          !.l      = Append(st.l, Len(st.stack) - 1)]

\* Tree_euler_step with r written on the first visit of a node only.
Tree_euler_step_first_visit(tree, st) ==
    LET v_id  == st.stack[Len(st.stack)]
        c_idx == At(st.ch_idx, v_id)
        seen  == [st EXCEPT !.r = IF c_idx = 0 THEN SetAt(st.r, v_id, Len(st.e)) ELSE st.r,
                            !.e = Append(st.e, v_id),
                            !.l = Append(st.l, Len(st.stack))]
    IN  IF c_idx < Len(At(tree.children, v_id))
        THEN [seen EXCEPT !.stack  = Append(st.stack, At(At(tree.children, v_id), c_idx)),
                          !.ch_idx = SetAt(st.ch_idx, v_id, c_idx + 1)]
        ELSE [seen EXCEPT !.stack  = SubSeq(st.stack, 1, Len(st.stack) - 1)]

\* One iteration of the loop of euler_tour on the state
\* st = [e, l, r, ch_idx, stack].
Tree_euler_step(tree, st) ==
    LET v_id  == st.stack[Len(st.stack)]
        c_idx == At(st.ch_idx, v_id)
        seen  == [st EXCEPT !.r = SetAt(st.r, v_id, Len(st.e)),
                            !.e = Append(st.e, v_id),
                            !.l = Append(st.l, Len(st.stack))]
    IN  IF c_idx < Len(At(tree.children, v_id))
        THEN [seen EXCEPT !.stack  = Append(st.stack, At(At(tree.children, v_id), c_idx)),
                          !.ch_idx = SetAt(st.ch_idx, v_id, c_idx + 1)]
        ELSE [seen EXCEPT !.stack  = SubSeq(st.stack, 1, Len(st.stack) - 1)]

\* while !stack.is_empty()
RECURSIVE Tree_euler_loop(_, _)
Tree_euler_loop(tree, st) ==
    IF st.stack # <<>> THEN Tree_euler_loop(tree, Tree_euler_step(tree, st)) ELSE st

\* The state of euler_tour when its loop has ended.
Tree_euler_final(tree) ==
    LET n == Len(tree.parents)
    IN  Tree_euler_loop(tree,
            [e |-> <<>>, l |-> <<>>, r |-> [p \in 1..n |-> 0],
             ch_idx |-> [p \in 1..n |-> 0], stack |-> <<tree.root>>])

EulerTour(e, l, r) == [e |-> e, l |-> l, r |-> r]

Tree_euler_tour(tree) ==
    LET fin == Tree_euler_final(tree)
    IN  EulerTour(fin.e, fin.l, fin.r)

Lca_new(tree) ==
    [tree |-> tree, et |-> EulerTour(<<>>, <<>>, <<>>), rmq |-> PlusMinus_new(<<>>)]

Lca_process_data(oc, self) ==
    LET et == Tree_euler_tour(self.tree)
    IN  [self EXCEPT !.et = et,
                     !.rmq = PlusMinus_process_data(oc, PlusMinus_new(et.l))]

Lca_query(oc, self, u_id, v_id) ==
    IF ~InRange(self.et.r, u_id) \/ ~InRange(self.et.r, v_id)
    THEN Panic("index out of bounds")
    ELSE LET r_u == At(self.et.r, u_id)
             r_v == At(self.et.r, v_id)
             i   == Min(r_u, r_v)
             j   == Max(r_u, r_v)
             m   == PlusMinus_query(oc, self.rmq, i, j)
         IN  IF ~m.ok THEN m
             ELSE IF ~InRange(self.et.e, m.v) THEN Panic("index out of bounds")
             ELSE Ok(At(self.et.e, m.v))

\* ------------------------------------------------------------------ drivers
\* rmq_test.rs: the structures are built over one array, pre-processed one
\* after the other, and then asked the same index pairs one after the other.
\* A panic ends the program.

VARIABLES
    overflow_checks,  \* the build's profile: TRUE panics on overflow
    driver,           \* "algorithms", "plus_minus", "lca", "twice", "twice_pm"
                      \* or "log"
    data,             \* the array (Rc<[T]>) shared by the structures
    nopre, naive, seg, sparse, pm,   \* the RMQ structures
    tree,             \* the Tree
    et,               \* the EulerTour returned to the driver
    lca,              \* the Lca
    pc,               \* [phase, at]: the driver's position
    qi, qj,           \* the index pair (or node pair) of the current round
    ans               \* the answers of the current round, per structure

vars == <<overflow_checks, driver, data, nopre, naive, seg, sparse, pm,
          tree, et, lca, pc, qi, qj, ans>>

LogHelpers == {"log_f_32", "log_f_64", "log_f", "log_c_32", "log_c_64"}

Algs == {"nopre", "naive", "seg", "sparse", "pm", "lca"} \cup LogHelpers

NoAnswer == [done |-> FALSE, ok |-> FALSE, v |-> 0, why |-> ""]

Answer(r) == [done |-> TRUE, ok |-> r.ok, v |-> r.v, why |-> r.why]

NoAnswers == [a \in Algs |-> NoAnswer]

\* The structures in the order the driver uses them.
Order ==
    IF driver \in {"algorithms", "twice"} THEN <<"nopre", "naive", "seg", "sparse">>
    ELSE IF driver = "plus_minus" THEN <<"pm", "sparse">>
    ELSE IF driver = "twice_pm" THEN <<"pm">>
    ELSE <<"lca">>

\* The drivers that call process_data a second time on every structure.
TwiceDrivers == {"twice", "twice_pm"}

Aborted == [phase |-> "aborted", at |-> 0]

AfterProcess(status) ==
    IF status = "panicked" THEN Aborted
    ELSE IF pc.at < Len(Order) THEN [phase |-> pc.phase, at |-> pc.at + 1]
    ELSE IF pc.phase = "process" /\ driver \in TwiceDrivers
    THEN [phase |-> "reprocess", at |-> 1]
    ELSE [phase |-> "query", at |-> 1]

AfterQuery(r) ==
    IF ~r.ok THEN Aborted
    ELSE IF pc.at < Len(Order) THEN [phase |-> "query", at |-> pc.at + 1]
    ELSE [phase |-> "compared", at |-> pc.at]

Turn(phase, alg) == pc.phase = phase /\ Order[pc.at] = alg

\* It is alg's turn to be pre-processed, for the first or the second time.
Processing(alg) == Turn("process", alg) \/ Turn("reprocess", alg)

\* The indices the driver draws query ends from.
QIdx(n) == {i \in 0..(n - 1) : i < QSpan \/ i >= n - QSpan}

\* The round's pair: drawn by the first structure asked, kept by the others.
Pair(i, j) == i <= j /\ (pc.at = 1 \/ (i = qi /\ j = qj))

Record(alg, i, j, r) ==
    /\ ans' = [ans EXCEPT ![alg] = Answer(r)]
    /\ qi' = i
    /\ qj' = j
    /\ pc' = AfterQuery(r)

NoPreprocessing_process ==
    /\ Processing("nopre")
    /\ nopre' = NoPreprocessing_process_data(nopre)
    /\ pc' = AfterProcess(nopre'.status)
    /\ UNCHANGED <<overflow_checks, driver, data, naive, seg, sparse, pm,
                   tree, et, lca, qi, qj, ans>>

Naive_process ==
    /\ Processing("naive")
    /\ naive' = Naive_process_data(naive)
    /\ pc' = AfterProcess(naive'.status)
    /\ UNCHANGED <<overflow_checks, driver, data, nopre, seg, sparse, pm,
                   tree, et, lca, qi, qj, ans>>

SegmentTree_process ==
    /\ Processing("seg")
    /\ seg' = SegmentTree_process_data(seg)
    /\ pc' = AfterProcess(seg'.status)
    /\ UNCHANGED <<overflow_checks, driver, data, nopre, naive, sparse, pm,
                   tree, et, lca, qi, qj, ans>>

SparseTable_process ==
    /\ Processing("sparse")
    /\ sparse' = SparseTable_process_data(sparse)
    /\ pc' = AfterProcess(sparse'.status)
    /\ UNCHANGED <<overflow_checks, driver, data, nopre, naive, seg, pm,
                   tree, et, lca, qi, qj, ans>>

PlusMinus_process ==
    /\ Processing("pm")
    /\ pm' = PlusMinus_process_data(overflow_checks, pm)
    /\ pc' = AfterProcess(pm'.status)
    /\ UNCHANGED <<overflow_checks, driver, data, nopre, naive, seg, sparse,
                   tree, et, lca, qi, qj, ans>>

NoPreprocessing_ask ==
    /\ Turn("query", "nopre")
    /\ \E i \in QIdx(Len(data)), j \in QIdx(Len(data)) :
          /\ Pair(i, j)
          /\ Record("nopre", i, j, NoPreprocessing_query(overflow_checks, nopre, i, j))
    /\ UNCHANGED <<overflow_checks, driver, data, nopre, naive, seg, sparse, pm,
                   tree, et, lca>>

Naive_ask ==
    /\ Turn("query", "naive")
    /\ \E i \in QIdx(Len(data)), j \in QIdx(Len(data)) :
          /\ Pair(i, j)
          /\ Record("naive", i, j, Naive_query(overflow_checks, naive, i, j))
    /\ UNCHANGED <<overflow_checks, driver, data, nopre, naive, seg, sparse, pm,
                   tree, et, lca>>

SegmentTree_ask ==
    /\ Turn("query", "seg")
    /\ \E i \in QIdx(Len(data)), j \in QIdx(Len(data)) :
          /\ Pair(i, j)
          /\ Record("seg", i, j, SegmentTree_query(overflow_checks, seg, i, j))
    /\ UNCHANGED <<overflow_checks, driver, data, nopre, naive, seg, sparse, pm,
                   tree, et, lca>>

SparseTable_ask ==
    /\ Turn("query", "sparse")
    /\ \E i \in QIdx(Len(data)), j \in QIdx(Len(data)) :
          /\ Pair(i, j)
          /\ Record("sparse", i, j, SparseTable_query(overflow_checks, sparse, i, j))
    /\ UNCHANGED <<overflow_checks, driver, data, nopre, naive, seg, sparse, pm,
                   tree, et, lca>>

PlusMinus_ask ==
    /\ Turn("query", "pm")
    /\ \E i \in QIdx(Len(data)), j \in QIdx(Len(data)) :
          /\ Pair(i, j)
          /\ Record("pm", i, j, PlusMinus_query(overflow_checks, pm, i, j))
    /\ UNCHANGED <<overflow_checks, driver, data, nopre, naive, seg, sparse, pm,
                   tree, et, lca>>

\* The end of one iteration of the driver's loop over the queries: the
\* answers have been compared and the next pair is drawn.
NextRound ==
    /\ pc.phase = "compared"
    /\ pc' = [phase |-> "query", at |-> 1]
    /\ qi' = 0
    /\ qj' = 0
    /\ ans' = NoAnswers
    /\ UNCHANGED <<overflow_checks, driver, data, nopre, naive, seg, sparse, pm,
                   tree, et, lca>>

\* The driver goes on to the queries after one call of process_data on each
\* structure, as verify_algorithms does, instead of calling it again.
OnceOnly ==
    /\ driver \in TwiceDrivers
    /\ pc = [phase |-> "reprocess", at |-> 1]
    /\ pc' = [phase |-> "query", at |-> 1]
    /\ UNCHANGED <<overflow_checks, driver, data, nopre, naive, seg, sparse, pm,
                   tree, et, lca, qi, qj, ans>>

\* A call of one of the logarithm helpers on the argument n; its result is
\* the only answer kept.
LogCall(f, n, r) ==
    /\ driver = "log"
    /\ qi' = n
    /\ ans' = [NoAnswers EXCEPT ![f] = Answer(r)]
    /\ UNCHANGED <<overflow_checks, driver, data, nopre, naive, seg, sparse, pm,
                   tree, et, lca, pc, qj>>

\* The arguments of the 32 and 64 bit helpers, and those that fit a usize.
LogArgs ==
    (1..MaxArg) \cup {2 ^ e + d : e \in 1..MaxExp, d \in {-1, 0, 1}}

UsizeLogArgs == {n \in LogArgs : n <= USIZE_MAX}

log_f_32_call == \E n \in LogArgs : LogCall("log_f_32", n, Ok(log_f_32(n)))

log_f_64_call == \E n \in LogArgs : LogCall("log_f_64", n, Ok(log_f_64(n)))

log_f_call == \E n \in UsizeLogArgs : LogCall("log_f", n, Ok(log_f(n)))

log_c_32_call == \E n \in LogArgs : LogCall("log_c_32", n, log_c_32(overflow_checks, n))

log_c_64_call == \E n \in LogArgs : LogCall("log_c_64", n, log_c_64(overflow_checks, n))

\* The driver of the tree: the tour on its own, then the Lca over the tree.
Tree_tour ==
    /\ pc.phase = "tour"
    /\ et' = Tree_euler_tour(tree)
    /\ pc' = [phase |-> "process", at |-> 1]
    /\ UNCHANGED <<overflow_checks, driver, data, nopre, naive, seg, sparse, pm,
                   tree, lca, qi, qj, ans>>

Lca_process ==
    /\ Turn("process", "lca")
    /\ lca' = Lca_process_data(overflow_checks, lca)
    /\ pc' = AfterProcess(lca'.rmq.status)
    /\ UNCHANGED <<overflow_checks, driver, data, nopre, naive, seg, sparse, pm,
                   tree, et, qi, qj, ans>>

Lca_ask ==
    /\ Turn("query", "lca")
    /\ \E u \in 0..(Len(tree.parents) - 1), v \in 0..(Len(tree.parents) - 1) :
          /\ ans' = [ans EXCEPT !["lca"] =
                        Answer(Lca_query(overflow_checks, lca, u, v))]
          /\ qi' = u
          /\ qj' = v
          /\ pc' = AfterQuery(ans'["lca"])
    /\ UNCHANGED <<overflow_checks, driver, data, nopre, naive, seg, sparse, pm,
                   tree, et, lca>>

\* ------------------------------------------------------------------- inputs

\* Every array of 1 .. MaxLen values.
Arrays == UNION {[1..n -> 0..(MaxVal - 1)] : n \in 1..MaxLen}

\* The sum of the first t steps of pat (TRUE: +1, FALSE: -1), t <= PatLen.
RECURSIVE StepSum(_, _)
StepSum(pat, t) ==
    IF t = 0 THEN 0 ELSE StepSum(pat, t - 1) + (IF pat[t] THEN 1 ELSE -1)

\* The +-1 array of n elements that starts at 0 and whose steps repeat pat.
PlusMinusArray(n, pat) ==
    [p \in 1..n |-> ((p - 1) \div PatLen) * StepSum(pat, PatLen)
                    + StepSum(pat, (p - 1) % PatLen)]

\* The smallest length for which process_data chooses block size bs.
FirstLen(bs) == 2 ^ (2 * bs)

PlusMinusLens ==
    (1..(PatLen + 1))
    \cup {FirstLen(bs) + d : bs \in {2, 4}, d \in 0..(TailLens - 1)}

PlusMinusArrays ==
    {PlusMinusArray(n, pat) : n \in PlusMinusLens, pat \in [1..PatLen -> BOOLEAN]}

\* The +-1 arrays that are pre-processed twice: the short ones and those with
\* blocks of 2 in every step pattern, and two lengths with blocks of 4 and a
\* short last block in the patterns that rise first and fall last.
TwiceLens == {n \in PlusMinusLens : n <= FirstLen(2) + TailLens}

TwiceLongLens == {FirstLen(4) + 1, FirstLen(4) + 2}

TwiceLongPatterns == {pat \in [1..PatLen -> BOOLEAN] : pat[1] /\ ~pat[PatLen]}

\* The arrays the general structures are pre-processed twice on: those of
\* MaxVal - 1 different values.
TwiceGeneralArrays == UNION {[1..n -> 0..(MaxVal - 2)] : n \in 1..MaxLen}

TwiceArrays ==
    {PlusMinusArray(n, pat) : n \in TwiceLens, pat \in [1..PatLen -> BOOLEAN]}
        \cup {PlusMinusArray(n, pat) : n \in TwiceLongLens, pat \in TwiceLongPatterns}

\* A parent array of a rooted tree: one root, and every node below it.
RECURSIVE Reaches(_, _, _)
Reaches(parents, u, fuel) ==
    \/ At(parents, u) = NULL_NODE
    \/ fuel > 0 /\ Reaches(parents, At(parents, u), fuel - 1)

IsTree(parents) ==
    /\ Cardinality({u \in 1..Len(parents) : parents[u] = NULL_NODE}) = 1
    /\ \A u \in 0..(Len(parents) - 1) : Reaches(parents, u, Len(parents))

\* The tree of the README-style example: root 0, children of 0 = {1, 2},
\* children of 1 = {3, 4}.
ExampleParents == <<NULL_NODE, 0, 0, 1, 1>>

ParentArrays ==
    {ExampleParents} \cup
    UNION {{p \in [1..n -> (0..(n - 1)) \cup {NULL_NODE}] : IsTree(p)} : n \in 1..MaxNodes}

Idle ==
    /\ nopre = NoPreprocessing_new(<<>>)
    /\ naive = Naive_new(<<>>)
    /\ seg = SegmentTree_new(<<>>)
    /\ pm = PlusMinus_new(<<>>)
    /\ sparse = SparseTable_new(<<>>)

NoTree ==
    /\ tree = Tree_from_parents(<<>>)
    /\ et = EulerTour(<<>>, <<>>, <<>>)
    /\ lca = Lca_new(tree)

Fresh ==
    /\ overflow_checks \in BOOLEAN
    /\ qi = 0
    /\ qj = 0
    /\ ans = NoAnswers

\* verify_algorithms, over the four general structures.
Init ==
    /\ Fresh
    /\ driver = "algorithms"
    /\ data \in Arrays
    /\ nopre = NoPreprocessing_new(data)
    /\ naive = Naive_new(data)
    /\ seg = SegmentTree_new(data)
    /\ sparse = SparseTable_new(data)
    /\ pm = PlusMinus_new(<<>>)
    /\ NoTree
    /\ pc = [phase |-> "process", at |-> 1]

Next ==
    \/ NoPreprocessing_process
    \/ Naive_process
    \/ SegmentTree_process
    \/ SparseTable_process
    \/ NoPreprocessing_ask
    \/ Naive_ask
    \/ SegmentTree_ask
    \/ SparseTable_ask
    \/ NextRound

Spec == Init /\ [][Next]_vars

\* verify_plus_minus::<SparseTable>, over +-1 arrays.
InitPlusMinus ==
    /\ Fresh
    /\ driver = "plus_minus"
    /\ data \in PlusMinusArrays
    /\ nopre = NoPreprocessing_new(<<>>)
    /\ naive = Naive_new(<<>>)
    /\ seg = SegmentTree_new(<<>>)
    /\ sparse = SparseTable_new(data)
    /\ pm = PlusMinus_new(data)
    /\ NoTree
    /\ pc = [phase |-> "process", at |-> 1]

NextPlusMinus ==
    \/ PlusMinus_process
    \/ SparseTable_process
    \/ PlusMinus_ask
    \/ SparseTable_ask
    \/ NextRound

SpecPlusMinus == InitPlusMinus /\ [][NextPlusMinus]_vars

\* Lca<PlusMinus> over a tree built by Tree::from_parents.
InitLca ==
    /\ Fresh
    /\ driver = "lca"
    /\ data = <<>>
    /\ Idle
    /\ \E parents \in ParentArrays : tree = Tree_from_parents(parents)
    /\ et = EulerTour(<<>>, <<>>, <<>>)
    /\ lca = Lca_new(tree)
    /\ pc = [phase |-> "tour", at |-> 1]

NextLca ==
    \/ Tree_tour
    \/ Lca_process
    \/ Lca_ask
    \/ NextRound

SpecLca == InitLca /\ [][NextLca]_vars

\* process_data called once or twice on each structure before the queries:
\* the four general structures over any array, PlusMinus over a +-1 array.
InitTwice ==
    /\ Fresh
    /\ NoTree
    /\ pc = [phase |-> "process", at |-> 1]
    /\ \/ /\ driver = "twice"
          /\ data \in TwiceGeneralArrays
          /\ nopre = NoPreprocessing_new(data)
          /\ naive = Naive_new(data)
          /\ seg = SegmentTree_new(data)
          /\ sparse = SparseTable_new(data)
          /\ pm = PlusMinus_new(<<>>)
       \/ /\ driver = "twice_pm"
          /\ data \in TwiceArrays
          /\ nopre = NoPreprocessing_new(<<>>)
          /\ naive = Naive_new(<<>>)
          /\ seg = SegmentTree_new(<<>>)
          /\ sparse = SparseTable_new(<<>>)
          /\ pm = PlusMinus_new(data)

NextTwice ==
    \/ NoPreprocessing_process
    \/ Naive_process
    \/ SegmentTree_process
    \/ SparseTable_process
    \/ PlusMinus_process
    \/ NoPreprocessing_ask
    \/ Naive_ask
    \/ SegmentTree_ask
    \/ SparseTable_ask
    \/ PlusMinus_ask
    \/ OnceOnly
    \/ NextRound

SpecTwice == InitTwice /\ [][NextTwice]_vars

\* The logarithm helpers of log.rs, called on their own.
InitLog ==
    /\ Fresh
    /\ driver = "log"
    /\ data = <<>>
    /\ Idle
    /\ NoTree
    /\ pc = [phase |-> "log", at |-> 1]

NextLog ==
    \/ log_f_32_call
    \/ log_f_64_call
    \/ log_f_call
    \/ log_c_32_call
    \/ log_c_64_call

SpecLog == InitLog /\ [][NextLog]_vars

\* ------------------------------------------------------------- properties
\* What the answers are measured against: the minimum of a range, the
\* positions that hold it, the ancestors of a node.

General == {"nopre", "naive", "seg", "sparse"}

Rmqs == General \cup {"pm"}

MinVal(d, i, j) ==
    CHOOSE m \in {At(d, k) : k \in i..j} : \A k \in i..j : m <= At(d, k)

MinPositions(d, i, j) == {k \in i..j : At(d, k) = MinVal(d, i, j)}

LowestMin(d, i, j) ==
    CHOOSE k \in MinPositions(d, i, j) : \A o \in MinPositions(d, i, j) : k <= o

HighestMin(d, i, j) ==
    CHOOSE k \in MinPositions(d, i, j) : \A o \in MinPositions(d, i, j) : k >= o

Tied(d, i, j) == Cardinality(MinPositions(d, i, j)) >= 2

\* The answer of structure a in this round, when it has given one.
Answered(a) == ans[a].done

Returned(a) == ans[a].done /\ ans[a].ok

RECURSIVE Ancestors(_, _)
Ancestors(parents, u) ==
    IF At(parents, u) = NULL_NODE THEN {u}
    ELSE {u} \cup Ancestors(parents, At(parents, u))

Depth(parents, u) == Cardinality(Ancestors(parents, u)) - 1

LowestCommonAncestor(parents, u, v) ==
    LET common == Ancestors(parents, u) \cap Ancestors(parents, v)
    IN  CHOOSE w \in common : \A x \in common : Depth(parents, x) <= Depth(parents, w)

FirstOccurrence(e, u) ==
    CHOOSE k \in 0..(Len(e) - 1) : At(e, k) = u /\ \A o \in 0..(k - 1) : At(e, o) # u

LastOccurrence(e, u) ==
    CHOOSE k \in 0..(Len(e) - 1) :
        At(e, k) = u /\ \A o \in (k + 1)..(Len(e) - 1) : At(e, o) # u

Abs(x) == IF x < 0 THEN -x ELSE x

\* The steps inside block b of a +-1 array, TRUE for a step down.
StepPattern(d, block_size, b) ==
    LET b_sta == b * block_size
        b_end == Min(b_sta + block_size, Len(d))
    IN  [t \in 1..(b_end - b_sta - 1) |-> At(d, b_sta + t - 1) >= At(d, b_sta + t)]

Blocks(self) == 0..(Len(self.block_cls) - 1)

TablesBuilt(self) == {c \in 0..(Len(self.class_rmq) - 1) : At(self.class_rmq, c).some}

\* C1: after process_data the four general structures answer every valid
\* query, and the indices they return hold the same value, the minimum of
\* data[qi..qj].
C1_CrossAlgorithmEquivalence ==
    /\ \A a \in General :
          Answered(a) => /\ ans[a].ok
                         /\ At(data, ans[a].v) = MinVal(data, qi, qj)
    /\ \A a \in General, b \in General :
          (Answered(a) /\ Answered(b)) => At(data, ans[a].v) = At(data, ans[b].v)

\* C2: on every +-1 array, of any length, PlusMinus is pre-processed and
\* answers every valid query with an index that holds the same value as the
\* index SparseTable returns.
C2_PlusMinusEquivalence ==
    /\ pm.status # "panicked"
    /\ Answered("pm") => ans["pm"].ok
    /\ (Answered("pm") /\ Answered("sparse")) =>
          /\ ans["sparse"].ok
          /\ At(data, ans["pm"].v) = At(data, ans["sparse"].v)

\* C3: for every tree and every pair of nodes, Lca::process_data with
\* PlusMinus completes and Lca::query returns the lowest common ancestor.
C3_LcaCorrect ==
    driver = "lca" =>
        /\ lca.rmq.status # "panicked"
        /\ Answered("lca") =>
              /\ ans["lca"].ok
              /\ ans["lca"].v = LowestCommonAncestor(tree.parents, qi, qj)

C5_FullRange ==
    /\ pm.status # "panicked"
    /\ \A a \in Rmqs :
          (Answered(a) /\ qi = 0 /\ qj = Len(data) - 1) =>
              /\ ans[a].ok
              /\ At(data, ans[a].v) = MinVal(data, 0, Len(data) - 1)

\* C6: for every structure and every array of n >= 1 elements, process_data
\* completes and query(i, i) returns i.
C6_Singleton ==
    /\ pm.status # "panicked"
    /\ \A a \in Rmqs :
          (Answered(a) /\ qi = qj) => (ans[a].ok /\ ans[a].v = qi)

\* C7: no process_data and no query on valid input panics: the program is
\* never ended by an overflow, an index out of range or an empty slot.
C7_Total ==
    /\ pc.phase # "aborted"
    /\ \A a \in Rmqs : Answered(a) => ans[a].why = ""
    /\ pm.why = ""

\* C8: the tour of a tree of n nodes ends with an empty stack, e and l have
\* 2n-1 entries, consecutive entries of l differ by exactly 1, and l[k] is the
\* depth of e[k] plus 1.
C8_EulerTourShape ==
    (driver = "lca" /\ pc.phase # "tour") =>
        LET n == Len(tree.parents)
        IN  /\ Tree_euler_final(tree).stack = <<>>
            /\ Len(et.e) = 2 * n - 1
            /\ Len(et.l) = 2 * n - 1
            /\ \A k \in 1..(Len(et.l) - 1) : Abs(et.l[k + 1] - et.l[k]) = 1
            /\ \A k \in 1..Len(et.l) : et.l[k] = Depth(tree.parents, et.e[k]) + 1

\* C8's case: the tour of a tree with a node two levels below the root.
C8_Witness ==
    /\ driver = "lca"
    /\ pc.phase # "tour"
    /\ Len(et.e) >= 5
    /\ \E k \in 1..Len(et.l) : et.l[k] >= 3

\* C9 as claimed: r[u] is the index of the first occurrence of u in e.
C9_FirstOccurrence ==
    (driver = "lca" /\ pc.phase # "tour") =>
        \A u \in 0..(Len(tree.parents) - 1) : At(et.r, u) = FirstOccurrence(et.e, u)

\* C9 as amended: r[u] is the index of the last occurrence of u in e; that is
\* also its first occurrence exactly when u has no children.
C9_LastOccurrence ==
    (driver = "lca" /\ pc.phase # "tour") =>
        \A u \in 0..(Len(tree.parents) - 1) :
            /\ At(et.r, u) = LastOccurrence(et.e, u)
            /\ (At(tree.children, u) = <<>>) <=> (At(et.r, u) = FirstOccurrence(et.e, u))

\* C9's case: the tour of a tree with a leaf and with a node that has
\* children and is not the root.
C9_Witness ==
    /\ driver = "lca"
    /\ pc.phase # "tour"
    /\ \E u \in 0..(Len(tree.parents) - 1) :
          /\ u # tree.root
          /\ At(tree.children, u) # <<>>
          /\ At(et.r, u) > FirstOccurrence(et.e, u)

\* C10: in the state PlusMinus::process_data leaves (queries take &self and
\* do not change it) every block's class id is below
\* 2^(block_size-1), the length of class_rmq; at most that many tables are
\* built; the classes that have a table are exactly the classes of the
\* blocks; and two blocks with the same step pattern have the same class,
\* hence the same table.
C10_ClassCache ==
    (pm.status = "ready" /\ pc.phase = "process") =>
        /\ Len(pm.class_rmq) = 2 ^ (pm.block_size - 1)
        /\ \A b \in Blocks(pm) : At(pm.block_cls, b) < 2 ^ (pm.block_size - 1)
        /\ Cardinality(TablesBuilt(pm)) <= 2 ^ (pm.block_size - 1)
        /\ TablesBuilt(pm) = {At(pm.block_cls, b) : b \in Blocks(pm)}
        /\ \A b \in Blocks(pm), c \in Blocks(pm) :
              StepPattern(pm.data, pm.block_size, b) = StepPattern(pm.data, pm.block_size, c)
                  => At(pm.block_cls, b) = At(pm.block_cls, c)

\* C10's case: blocks of 4 elements, a short last block that shares its
\* class with a full block, and more than one table.
C10_Witness ==
    /\ pm.status = "ready"
    /\ pc.phase = "process"
    /\ pm.block_size = 4
    /\ Len(pm.data) % 4 # 0
    /\ Cardinality(TablesBuilt(pm)) >= 2
    /\ \E b \in Blocks(pm) :
          /\ b < Len(pm.block_cls) - 1
          /\ At(pm.block_cls, b) = At(pm.block_cls, Len(pm.block_cls) - 1)

\* The structure of name a as it is now, and as one call of process_data
\* leaves a new one.
Structure(a) ==
    CASE a = "nopre"  -> nopre
      [] a = "naive"  -> naive
      [] a = "seg"    -> seg
      [] a = "sparse" -> sparse
      [] a = "pm"     -> pm

ProcessedOnce(a) ==
    CASE a = "nopre"  -> NoPreprocessing_process_data(NoPreprocessing_new(data))
      [] a = "naive"  -> Naive_process_data(Naive_new(data))
      [] a = "seg"    -> SegmentTree_process_data(SegmentTree_new(data))
      [] a = "sparse" -> SparseTable_process_data(SparseTable_new(data))
      [] a = "pm"     -> PlusMinus_process_data(overflow_checks, PlusMinus_new(data))

QueryOn(a, self, i, j) ==
    CASE a = "nopre"  -> NoPreprocessing_query(overflow_checks, self, i, j)
      [] a = "naive"  -> Naive_query(overflow_checks, self, i, j)
      [] a = "seg"    -> SegmentTree_query(overflow_checks, self, i, j)
      [] a = "sparse" -> SparseTable_query(overflow_checks, self, i, j)
      [] a = "pm"     -> PlusMinus_query(overflow_checks, self, i, j)

InOrder(a) == \E k \in 1..Len(Order) : Order[k] = a

\* A PlusMinus that went through a second call shows it: block_min_idx holds
\* the entries pushed by both calls.
SecondCallSeen(a) == a = "pm" => Len(pm.block_min_idx) > Len(pm.block_cls)

\* C11: a second call of process_data on a structure whose first call
\* completed completes as well, and every valid query afterwards has the
\* outcome it has after the first call: the same index.
C11_Idempotent ==
    driver \in TwiceDrivers =>
        \A a \in Rmqs :
            InOrder(a) =>
                /\ Structure(a).status = "panicked" => ProcessedOnce(a).status = "panicked"
                /\ (Answered(a) /\ SecondCallSeen(a)) =>
                       ans[a] = Answer(QueryOn(a, ProcessedOnce(a), qi, qj))

\* C11's case: PlusMinus, pre-processed twice so that block_min_idx holds
\* the entries of both calls, has answered a query that ends in a short last
\* block; and the four general structures have answered after two calls.
C11_Witness ==
    /\ driver = "twice_pm"
    /\ Returned("pm")
    /\ Len(pm.block_min_idx) = 2 * Len(pm.block_cls)
    /\ pm.block_size >= 2
    /\ Len(data) % pm.block_size # 0
    /\ qi < qj
    /\ qj = Len(data) - 1

\* The last block of a pre-processed PlusMinus, where it starts, and whether
\* it is shorter than block_size.
LastBlock(self) == Len(self.block_cls) - 1

LastStart(self) == LastBlock(self) * self.block_size

ShortLast(self) ==
    /\ self.status = "ready"
    /\ Len(self.data) % self.block_size # 0

\* The data of the block from which the class table of block b was built.
Representative(self, b) == At(self.class_rmq, At(self.block_cls, b)).rmq.data

\* C12: when the length is not a multiple of block_size, every query that
\* lies in the short last block or runs from an earlier block into it
\* returns a minimum of its range, and the class table used for the short
\* block was built from a block whose first steps are the steps of the short
\* block.
C12_PartialLastBlock ==
    (driver = "plus_minus" /\ ShortLast(pm)) =>
        /\ (Returned("pm") /\ qj >= LastStart(pm)) =>
               At(data, ans["pm"].v) = MinVal(data, qi, qj)
        /\ pc.phase = "process" =>
               \A t \in 1..(Len(data) - LastStart(pm) - 1) :
                   (Representative(pm, LastBlock(pm))[t] >= Representative(pm, LastBlock(pm))[t + 1])
                       <=> (At(data, LastStart(pm) + t - 1) >= At(data, LastStart(pm) + t))

\* floor(log2 n) for n >= 1: the largest e with 2^e <= n.
FloorLog2(n) == CHOOSE e \in 0..(MaxExp + 1) : 2 ^ e <= n /\ n < 2 ^ (e + 1)

\* ceil(log2 n) for n >= 1: the smallest e with n <= 2^e.
CeilLog2(n) == CHOOSE e \in 0..(MaxExp + 1) : n <= 2 ^ e /\ (e = 0 \/ 2 ^ (e - 1) < n)

\* bs is the largest power of two that does not exceed log2(n) / 2:
\* 2 * bs <= log2(n) < 4 * bs.
LargestHalfLog(bs, n) ==
    /\ \E e \in 0..UsizeBits : bs = 2 ^ e
    /\ 2 ^ (2 * bs) <= n
    /\ n < 2 ^ (4 * bs)

\* What C13 says of a pre-processed PlusMinus.
BlockSizeAsSpecified(self) ==
    LET n == Len(self.data)
        k == FloorLog2(FloorLog2(n)) - 1
    IN  /\ n >= 2
        /\ k >= 0
        /\ self.block_size = 2 ^ k
        /\ LargestHalfLog(self.block_size, n)
        /\ self.block_div = k
        /\ self.block_mod = self.block_size - 1
        /\ \A i \in 0..(n - 1) :
              /\ usize_shr(overflow_checks, i, self.block_div) = Ok(i \div self.block_size)
              /\ BitAnd(i, self.block_mod) = i % self.block_size

RowEnd(n, k, i) == Min(n - 1, i + 2 ^ k - 1)

C15_QueryCoverage ==
    (driver = "algorithms" /\ Answered("sparse")) =>
        LET k      == log_f(qj - qi)
            second == SparseTable_second(overflow_checks, qj, k)
        IN  /\ InRange(sparse.table, k)
            /\ second.ok
            /\ qi + 2 ^ k - 1 <= qj
            /\ qi <= second.v
            /\ (qi..(qi + 2 ^ k - 1)) \cup (second.v..qj) = qi..qj

\* n + ceil(n/2) + ceil(n/4) + ... + 1: the terms ceil(n / 2^l) from l on,
\* down to the first that is 1.
RECURSIVE CeilSum(_, _)
CeilSum(n, l) ==
    LET term == (n + 2 ^ l - 1) \div (2 ^ l)
    IN  IF term <= 1 THEN term ELSE term + CeilSum(n, l + 1)

IsLeaf(node) == node.left = USIZE_MAX

\* C16: after SegmentTree::process_data on n >= 1 elements the node array has
\* n + ceil(n/2) + ceil(n/4) + ... + 1 nodes, node 0 covers [0, n-1], a leaf
\* covers one index, the range of an internal node is the range of its left
\* child followed by the range of its right child if it has one, and every
\* min_idx lies in the node's range and holds the minimum of that range.
C16_NodeInvariant ==
    (driver = "algorithms" /\ seg.status = "ready") =>
        LET n == Len(data)
            t == seg.tree
        IN  /\ Len(t) = CeilSum(n, 0)
            /\ At(t, 0).fr_idx = 0
            /\ At(t, 0).to_idx = n - 1
            /\ \A p \in 0..(Len(t) - 1) :
                  LET node == At(t, p)
                  IN  /\ node.fr_idx <= node.min_idx
                      /\ node.min_idx <= node.to_idx
                      /\ node.to_idx < n
                      /\ At(data, node.min_idx) = MinVal(data, node.fr_idx, node.to_idx)
                      /\ IF IsLeaf(node)
                         THEN /\ node.right = USIZE_MAX
                              /\ node.fr_idx = node.to_idx
                         ELSE /\ InRange(t, node.left)
                              /\ node.fr_idx = At(t, node.left).fr_idx
                              /\ IF node.right = USIZE_MAX
                                 THEN node.to_idx = At(t, node.left).to_idx
                                 ELSE /\ InRange(t, node.right)
                                      /\ At(t, node.right).fr_idx = At(t, node.left).to_idx + 1
                                      /\ node.to_idx = At(t, node.right).to_idx

\* C16's case: the tree over five elements, 5 + 3 + 2 + 1 nodes, which has
\* internal nodes with one child, and whose minimum is in the right part.
C16_Witness ==
    /\ driver = "algorithms"
    /\ seg.status = "ready"
    /\ Len(data) = 5
    /\ Len(seg.tree) = 11
    /\ \E p \in 0..(Len(seg.tree) - 1) :
          ~IsLeaf(At(seg.tree, p)) /\ At(seg.tree, p).right = USIZE_MAX
    /\ At(seg.tree, 0).min_idx = 4

\* The range of node p of the segment tree, and the indices query(qi, qj)
\* chooses from: the start index and the min_idx of every node it takes.
NodeRange(p) == At(seg.tree, p).fr_idx..At(seg.tree, p).to_idx

TakenNodes == SegmentTree_taken(seg.tree, 0, qi, qj)

Candidates == {qi} \cup {At(seg.tree, p).min_idx : p \in TakenNodes}

\* C17: for every valid query SegmentTree has answered, the nodes whose
\* min_idx it takes (the matching node, or the skipped children and the end
\* nodes of the two walks) have pairwise disjoint ranges inside [qi, qj]
\* whose union is [qi, qj], and the returned index is one of these min_idx
\* or qi and holds the least value among them.
C17_CanonicalDecomposition ==
    (driver = "algorithms" /\ Answered("seg")) =>
        /\ \A p \in TakenNodes : NodeRange(p) \subseteq qi..qj
        /\ \A p \in TakenNodes, q \in TakenNodes :
              p # q => NodeRange(p) \cap NodeRange(q) = {}
        /\ UNION {NodeRange(p) : p \in TakenNodes} = qi..qj
        /\ ans["seg"].ok
        /\ ans["seg"].v \in Candidates
        /\ \A x \in Candidates : At(data, ans["seg"].v) <= At(data, x)

\* C17's case: a query that splits and takes a skipped child on the way.
C17_Witness ==
    /\ driver = "algorithms"
    /\ Returned("seg")
    /\ Cardinality(TakenNodes) >= 3
    /\ ans["seg"].v # qi

\* Block b of a PlusMinus uses a class table that was built from the data of
\* another block.
SharedTable(self, b) ==
    Representative(self, b) #
        SubSeq(self.data, b * self.block_size + 1,
               Min((b + 1) * self.block_size, Len(self.data)))

\* C18: every index a structure returns for a query 0 <= qi <= qj < n lies
\* in [qi, qj], for PlusMinus also when the blocks of the query use class
\* tables built from other blocks.
C18_ResultInRange ==
    \A a \in Rmqs :
        Returned(a) => (qi <= ans[a].v /\ ans[a].v <= qj)

\* C18's case: PlusMinus, with blocks of 4, has answered a query that lies
\* in the short last block whose class table was built from another block.
C18_Witness ==
    /\ driver = "twice_pm"
    /\ Returned("pm")
    /\ pm.block_size = 4
    /\ ShortLast(pm)
    /\ SharedTable(pm, LastBlock(pm))
    /\ qi >= LastStart(pm)
    /\ qi < qj

\* C19: for every n >= 1, log_f_32(n), log_f_64(n) and log_f(n) return
\* floor(log2 n), and log_c_32(n) and log_c_64(n) return ceil(log2 n),
\* including for n = 1 and for the powers of two.
C19_LogHelpers ==
    driver = "log" =>
        \A f \in LogHelpers :
            Answered(f) =>
                /\ ans[f].ok
                /\ ans[f].v = IF f \in {"log_c_32", "log_c_64"}
                              THEN CeilLog2(qi)
                              ELSE FloorLog2(qi)

====
